---- MODULE Spec2Model ----
(***************************************************************************)
(* Model of update_publications.py and update_publications_local.py:       *)
(* fetch_publications -> generate_publications_html -> update_html_file    *)
(* (-> push_to_github in the local script).                                *)
(*                                                                         *)
(* Text is a sequence of tokens.  A token is one character, or one literal *)
(* chunk that the scripts only ever handle whole (a marker, a fixed piece  *)
(* of markup).  The two markers cannot overlap each other or themselves,   *)
(* so one token per marker occurrence loses nothing.                       *)
(***************************************************************************)
EXTENDS Integers, Sequences, FiniteSets, TLC

VARIABLES
    script,        \* which entry point runs
    pc,            \* position of main / of the function under study
    raw,           \* the records the bibliographic source returns
    fetchOK,       \* FALSE when a scholarly call raises
    publications,  \* result of fetch_publications
    html,          \* result of format_publication_html
    new_content,   \* the rendered region handed to update_html_file
    fileExists,    \* whether academia.html exists
    doc,           \* text of academia.html
    docBefore,     \* text of academia.html when the last update_html_file began
    reads,         \* number of times academia.html was read
    writes,        \* number of times academia.html was opened for writing
    results,       \* return values of the update_html_file calls so far
    gitLog,        \* git commands issued so far, each with its outcome
    pushed,        \* outcome of push_to_github: "none" until it returns
    scholar_id,    \* the Scholar ID main works with
    exitCode       \* return value of main, -1 while it runs

vars == <<script, pc, raw, fetchOK, publications, html, new_content, fileExists,
          doc, docBefore, reads, writes, results, gitLog, pushed, scholar_id,
          exitCode>>

----------------------------------------------------------------------------
(* Configuration *)

SECTION_MARKER_START == "<!-- PUBLICATIONS_START -->"
SECTION_MARKER_END == "<!-- PUBLICATIONS_END -->"

Scripts == {"update_publications", "update_publications_local"}

BACKSLASH == "\\"
NEWLINE == "LF"
\* "g<0>" is the four characters g < 0 > taken whole; "n" and "x" are letters.
GROUP0 == "g<0>"

----------------------------------------------------------------------------
(* Bounds *)

MaxDocLen == 4
MaxTitleLen == 2
MaxRuns == 2
MaxPubs == 11
MaxOddPubs == 2
MaxVenueLen == 2
MaxMainPubs == 2
MaxMainDocLen == 3

----------------------------------------------------------------------------
(* Text helpers *)

RECURSIVE SeqsUpTo(_, _)
SeqsUpTo(alphabet, n) ==
    IF n = 0 THEN {<<>>}
    ELSE LET shorter == SeqsUpTo(alphabet, n - 1)
         IN  shorter \cup {Append(s, a) : s \in {t \in shorter : Len(t) = n - 1},
                                          a \in alphabet}

\* marker in content
Contains(content, tok) == \E k \in 1..Len(content) : content[k] = tok

\* index of the first tok at or after position i, 0 when there is none
FirstIndex(content, tok, i) ==
    IF \E k \in i..Len(content) : content[k] = tok
    THEN CHOOSE k \in i..Len(content) :
            /\ content[k] = tok
            /\ \A j \in i..(k - 1) : content[j] # tok
    ELSE 0

RECURSIVE Flatten(_)
Flatten(seqs) ==
    IF seqs = <<>> THEN <<>> ELSE Head(seqs) \o Flatten(Tail(seqs))

\* sub occurs in text as a contiguous run
Occurs(sub, text) ==
    \E k \in 0..(Len(text) - Len(sub)) : SubSeq(text, k + 1, k + Len(sub)) = sub

----------------------------------------------------------------------------
(* re.sub(pattern, repl, content, flags=re.DOTALL) with the pattern        *)
(* START.*?END: repl is a replacement template, in which a backslash       *)
(* starts an escape.                                                       *)

\* the template compiles: no backslash at the end, no backslash before a
\* letter that is not a known escape
RECURSIVE TemplateOK(_, _)
TemplateOK(repl, i) ==
    IF i > Len(repl) THEN TRUE
    ELSE IF repl[i] # BACKSLASH THEN TemplateOK(repl, i + 1)
    ELSE IF i = Len(repl) THEN FALSE
    ELSE IF repl[i + 1] = "x" THEN FALSE
    ELSE TemplateOK(repl, i + 2)

\* the text a compiled template stands for, given the matched span
RECURSIVE Expand(_, _, _)
Expand(repl, i, match) ==
    IF i > Len(repl) THEN <<>>
    ELSE IF repl[i] # BACKSLASH THEN <<repl[i]>> \o Expand(repl, i + 1, match)
    ELSE LET c == repl[i + 1]
             out == CASE c = BACKSLASH -> <<BACKSLASH>>
                      [] c = "n" -> <<NEWLINE>>
                      [] c = GROUP0 -> match
                      [] OTHER -> <<BACKSLASH, c>>
         IN  out \o Expand(repl, i + 2, match)

\* every leftmost, non-greedy, non-overlapping START...END span from
\* position i on is replaced (count = 0)
RECURSIVE ReSubFrom(_, _, _)
ReSubFrom(content, repl, i) ==
    LET s == FirstIndex(content, SECTION_MARKER_START, i)
        e == IF s = 0 THEN 0 ELSE FirstIndex(content, SECTION_MARKER_END, s + 1)
    IN  IF e = 0 THEN SubSeq(content, i, Len(content))
        ELSE SubSeq(content, i, s - 1)
               \o Expand(repl, 1, SubSeq(content, s, e))
               \o ReSubFrom(content, repl, e + 1)

\* the same with count = 1: only the first span is replaced
ReSubFirstOnly(content, repl) ==
    LET s == FirstIndex(content, SECTION_MARKER_START, 1)
        e == IF s = 0 THEN 0 ELSE FirstIndex(content, SECTION_MARKER_END, s + 1)
    IN  IF e = 0 THEN content
        ELSE SubSeq(content, 1, s - 1)
               \o Expand(repl, 1, SubSeq(content, s, e))
               \o SubSeq(content, e + 1, Len(content))

ReSub(content, repl) == ReSubFrom(content, repl, 1)

----------------------------------------------------------------------------
(* Records *)

\* dict.get(key, default) on a record with optional fields
Get(d, key, default) == IF key \in DOMAIN d THEN d[key] ELSE default

NO_DATE == <<"n", ".", "d", ".">>
UNPUBLISHED == <<"Unpublished">>

\* the dictionary fetch_publications appends for one filled record; the bib
\* fields and the top-level fields of the source's record are kept in one
\* function, their names being distinct
Normalize(r) ==
    [title     |-> Get(r, "title", <<"No title">>),
     authors   |-> Get(r, "author", [list |-> FALSE, val |-> <<"Unknown authors">>]),
     year      |-> Get(r, "pub_year", NO_DATE),
     venue     |-> Get(r, "venue", Get(r, "journal", UNPUBLISHED)),
     citations |-> Get(r, "num_citations", 0),
     url       |-> Get(r, "pub_url", Get(r, "eprint_url", <<>>))]

----------------------------------------------------------------------------
(* Sort key of a year *)

Digits == {"0", "1", "2", "3", "4", "5", "6", "7", "8", "9"}

DigitValue(c) ==
    CHOOSE v \in 0..9 : <<"0", "1", "2", "3", "4", "5", "6", "7", "8", "9">>[v + 1] = c

RECURSIVE Decimal(_)
Decimal(text) ==
    IF text = <<>> THEN 0
    ELSE 10 * Decimal(SubSeq(text, 1, Len(text) - 1)) + DigitValue(text[Len(text)])

\* int(text) returns rather than raising ValueError
IntParses(text) == text # <<>> /\ \A k \in 1..Len(text) : text[k] \in Digits

\* re.search(r'(19|20)\d{2}', text): start of the leftmost match, 0 when none
IsYearAt(text, k) ==
    /\ k + 3 <= Len(text)
    /\ <<text[k], text[k + 1]>> \in {<<"1", "9">>, <<"2", "0">>}
    /\ text[k + 2] \in Digits
    /\ text[k + 3] \in Digits

YearMatch(text) ==
    IF \E k \in 1..Len(text) : IsYearAt(text, k)
    THEN CHOOSE k \in 1..Len(text) :
            IsYearAt(text, k) /\ \A j \in 1..(k - 1) : ~IsYearAt(text, j)
    ELSE 0

\* update_publications.py: the key lambda raises on this year
KeyRaises(s, year) ==
    s = "update_publications" /\ year # NO_DATE /\ ~IntParses(year)

\* the key of x['year'] (update_publications.py, where KeyRaises tells when
\* it raises instead) and get_sort_year (update_publications_local.py)
get_sort_year(s, year) ==
    IF s = "update_publications"
    THEN IF year # NO_DATE THEN Decimal(year) ELSE 0
    ELSE IF year = NO_DATE \/ year = <<>> THEN 0
         ELSE IF YearMatch(year) # 0
              THEN Decimal(SubSeq(year, YearMatch(year), YearMatch(year) + 3))
              ELSE IF IntParses(year) THEN Decimal(year) ELSE 0

----------------------------------------------------------------------------
(* fetch_publications *)

TopN == 10

\* an unstable variant: an equal key goes in front
RECURSIVE InsertDescUnstable(_, _, _)
InsertDescUnstable(sorted, p, s) ==
    IF sorted = <<>> THEN <<p>>
    ELSE IF get_sort_year(s, Head(sorted).year) > get_sort_year(s, p.year)
         THEN <<Head(sorted)>> \o InsertDescUnstable(Tail(sorted), p, s)
         ELSE <<p>> \o sorted

\* list.sort(key=..., reverse=True): descending, and stable
RECURSIVE InsertDesc(_, _, _)
InsertDesc(sorted, p, s) ==
    IF sorted = <<>> THEN <<p>>
    ELSE IF get_sort_year(s, Head(sorted).year) >= get_sort_year(s, p.year)
         THEN <<Head(sorted)>> \o InsertDesc(Tail(sorted), p, s)
         ELSE <<p>> \o sorted

RECURSIVE SortDesc(_, _)
SortDesc(pubs, s) ==
    IF pubs = <<>> THEN <<>>
    ELSE InsertDesc(SortDesc(SubSeq(pubs, 1, Len(pubs) - 1), s), pubs[Len(pubs)], s)

\* publications[:10]
Truncate(pubs) == SubSeq(pubs, 1, IF Len(pubs) < TopN THEN Len(pubs) ELSE TopN)

fetch_publications(s, source, ok) ==
    IF ~ok THEN <<>>
    ELSE LET pubs == [k \in 1..Len(source) |-> Normalize(source[k])]
         IN  IF \E k \in 1..Len(pubs) : KeyRaises(s, pubs[k].year)
             THEN <<>>
             ELSE Truncate(SortDesc(pubs, s))

----------------------------------------------------------------------------
(* Rendering *)

RECURSIVE Join(_)
Join(names) ==
    IF names = <<>> THEN <<>>
    ELSE IF Len(names) = 1 THEN names[1]
    ELSE names[1] \o <<", ">> \o Join(Tail(names))

\* str.strip() leaves something
NotBlank(text) == \E k \in 1..Len(text) : text[k] # " "

ShowVenue(s, venue) ==
    \/ s = "update_publications"
    \/ venue # <<>> /\ venue # UNPUBLISHED /\ NotBlank(venue)

format_publication_html(s, pub) ==
    LET authors == IF pub.authors.list THEN Join(pub.authors.val) ELSE pub.authors.val
    IN  <<"<div class=publication-item>">>
        \o (IF pub.url # <<>>
            THEN <<"<h3><a href=">> \o pub.url \o <<" target=_blank>">>
                   \o pub.title \o <<"</a></h3>">>
            ELSE <<"<h3>">> \o pub.title \o <<"</h3>">>)
        \o <<"<p class=authors>">> \o authors \o <<"</p>">>
        \o <<"<p class=venue-info>">>
        \o (IF ShowVenue(s, pub.venue) THEN pub.venue \o <<", ">> ELSE <<>>)
        \o pub.year
        \o (IF pub.citations > 0
            THEN <<" * <span class=citations>", ToString(pub.citations),
                   " citations</span>">>
            ELSE <<>>)
        \o <<"</p>", "</div>">>

generate_publications_html(s, pubs, now) ==
    <<SECTION_MARKER_START, "<!-- Last updated: ", now, " -->",
      "<div class=publications-list>">>
    \o Flatten([k \in 1..Len(pubs) |-> format_publication_html(s, pubs[k])])
    \o <<"</div>", SECTION_MARKER_END>>

----------------------------------------------------------------------------
(* update_html_file *)

MarkersPresent_either(content) ==
    Contains(content, SECTION_MARKER_START) \/ Contains(content, SECTION_MARKER_END)

\* not (START not in content or END not in content)
MarkersPresent(content) ==
    Contains(content, SECTION_MARKER_START) /\ Contains(content, SECTION_MARKER_END)

\* what open(html_file, 'w') and f.write can do
IOOutcomes == {"written", "open_fails", "write_fails"}

\* the return value and the file's text afterwards; exists and io are the
\* environment's part
update_html_file(exists, content, repl, io) ==
    IF ~exists
    THEN [ret |-> FALSE, text |-> content, read |-> FALSE, opened |-> FALSE]
    ELSE IF ~MarkersPresent(content)
    THEN [ret |-> FALSE, text |-> content, read |-> TRUE, opened |-> FALSE]
    ELSE IF ~TemplateOK(repl, 1)
    THEN [ret |-> FALSE, text |-> content, read |-> TRUE, opened |-> FALSE]
    ELSE IF io = "open_fails"
    THEN [ret |-> FALSE, text |-> content, read |-> TRUE, opened |-> FALSE]
    ELSE IF io = "write_fails"
    THEN [ret |-> FALSE, text |-> <<>>, read |-> TRUE, opened |-> TRUE]
    ELSE [ret |-> TRUE, text |-> ReSub(content, repl), read |-> TRUE, opened |-> TRUE]

----------------------------------------------------------------------------
(* State shared by the specifications *)

GOOGLE_SCHOLAR_ID(s) ==
    IF s = "update_publications" THEN "YOUR_SCHOLAR_ID" ELSE "kWYDz2UAAAAJ"

\* one call of update_html_file(HTML_FILE, new_content) on the file
UpdateCall(io) ==
    LET r == update_html_file(fileExists, doc, new_content, io)
    IN  /\ doc' = r.text
        /\ docBefore' = doc
        /\ reads' = reads + (IF r.read THEN 1 ELSE 0)
        /\ writes' = writes + (IF r.opened THEN 1 ELSE 0)
        /\ results' = Append(results, r.ret)

----------------------------------------------------------------------------
(* SpecSplice: update_html_file run up to MaxRuns times on one document    *)
(* with one rendered region.                                               *)

DocAlphabet == {"x", SECTION_MARKER_START, SECTION_MARKER_END}
Docs == SeqsUpTo(DocAlphabet, MaxDocLen)

TitleAlphabet == {"x", BACKSLASH, GROUP0, SECTION_MARKER_END}
Titles == SeqsUpTo(TitleAlphabet, MaxTitleLen)

SplicePub(title) ==
    Normalize([title |-> title, pub_year |-> <<"2", "0", "2", "1">>, venue |-> <<"V">>])

SpliceInit ==
    /\ script = "update_publications_local"
    /\ scholar_id = GOOGLE_SCHOLAR_ID(script)
    /\ pc = "splice"
    /\ raw = <<>> /\ fetchOK = TRUE /\ html = <<>>
    /\ \E title \in Titles : publications = <<SplicePub(title)>>
    /\ new_content = generate_publications_html(script, publications, "T0")
    /\ fileExists \in BOOLEAN
    /\ doc \in (IF fileExists THEN Docs ELSE {<<>>})
    /\ docBefore = doc
    /\ reads = 0 /\ writes = 0 /\ results = <<>>
    /\ gitLog = <<>> /\ pushed = "none" /\ exitCode = -1

SpliceUpdate ==
    /\ pc = "splice"
    /\ Len(results) < MaxRuns
    /\ \E io \in IOOutcomes : UpdateCall(io)
    /\ UNCHANGED <<script, pc, raw, fetchOK, publications, html, new_content,
                   fileExists, gitLog, pushed, scholar_id, exitCode>>

SpliceNext == SpliceUpdate

SpecSplice == SpliceInit /\ [][SpliceNext]_vars

(* Properties of update_html_file *)

Count(text, tok) == Cardinality({k \in 1..Len(text) : text[k] = tok})

LastResult == results[Len(results)]

\* exactly one start marker, followed later by exactly one end marker
OnePair(d) ==
    /\ Count(d, SECTION_MARKER_START) = 1
    /\ Count(d, SECTION_MARKER_END) = 1
    /\ FirstIndex(d, SECTION_MARKER_START, 1) < FirstIndex(d, SECTION_MARKER_END, 1)

\* the start marker, the end marker, or both are absent from d
LacksMarker(d) ==
    Count(d, SECTION_MARKER_START) = 0 \/ Count(d, SECTION_MARKER_END) = 0

\* the START...END spans of d that the pattern matches, as <<first, last>>:
\* a span ends at the first END after its START, and it starts at the first
\* START that no earlier END has closed
Spans(d) ==
    {p \in {k \in 1..Len(d) : d[k] = SECTION_MARKER_START}
             \X {k \in 1..Len(d) : d[k] = SECTION_MARKER_END} :
        /\ p[1] < p[2]
        /\ \A j \in (p[1] + 1)..(p[2] - 1) : d[j] # SECTION_MARKER_END
        /\ \A j \in 1..(p[1] - 1) :
              d[j] = SECTION_MARKER_START
                 => \E m \in (j + 1)..(p[1] - 1) : d[m] = SECTION_MARKER_END}

\* d with each span of Spans(d) replaced by what repl stands for there
Respliced(d, repl) ==
    LET spans == Spans(d)
        piece(k) ==
            IF \E p \in spans : p[1] = k
            THEN LET p == CHOOSE q \in spans : q[1] = k
                 IN  Expand(repl, 1, SubSeq(d, p[1], p[2]))
            ELSE IF \E p \in spans : p[1] < k /\ k <= p[2]
            THEN <<>>
            ELSE <<d[k]>>
    IN  Flatten([k \in 1..Len(d) |-> piece(k)])

\* C1: on a document with exactly one marker pair, after a successful
\* update_html_file the text is the old text before the start marker, then
\* new_content character for character, then the old text after the end marker.
C1_RoundTrip ==
    (Len(results) = 1 /\ results[1] /\ OnePair(docBefore))
        => LET s == FirstIndex(docBefore, SECTION_MARKER_START, 1)
               e == FirstIndex(docBefore, SECTION_MARKER_END, 1)
           IN  doc = SubSeq(docBefore, 1, s - 1) \o new_content
                       \o SubSeq(docBefore, e + 1, Len(docBefore))

\* C2: when update_html_file succeeds twice in a row with the same
\* new_content, the document after the second run is the document after the
\* first run.
C2_Idempotent ==
    (Len(results) = 2 /\ results[1] /\ results[2]) => doc = docBefore

\* C3: a call of update_html_file on a document that lacks a marker returns
\* False and neither opens the file for writing nor changes its text.
C3_MarkerAbsence ==
    [][(fileExists /\ LacksMarker(doc) /\ Len(results') = Len(results) + 1)
          => /\ ~results'[Len(results')]
             /\ doc' = doc
             /\ writes' = writes]_vars

C3_Witness ==
    /\ Len(results) = 1 /\ fileExists /\ ~LastResult
    /\ Contains(docBefore, SECTION_MARKER_START)
    /\ ~Contains(docBefore, SECTION_MARKER_END)
    /\ doc = docBefore /\ writes = 0 /\ reads = 1

\* C4 as stated: with more than one marker pair, only the first span is
\* replaced, and everything after it, the later pairs included, is as it was.
C4_OnlyFirstReplaced ==
    (Len(results) = 1 /\ results[1] /\ Cardinality(Spans(docBefore)) > 1)
        => LET first == CHOOSE p \in Spans(docBefore) :
                            \A q \in Spans(docBefore) : p[1] <= q[1]
               rest == SubSeq(docBefore, first[2] + 1, Len(docBefore))
           IN  /\ Len(doc) >= Len(rest)
               /\ SubSeq(doc, Len(doc) - Len(rest) + 1, Len(doc)) = rest

\* C4 amended: a successful update_html_file replaces every span the pattern
\* matches (leftmost, non-greedy, non-overlapping), the later ones as well as
\* the first, by what re.sub makes of new_content there, and leaves the text
\* outside the spans as it was.
C4_EverySpanReplaced ==
    (Len(results) >= 1 /\ LastResult) => doc = Respliced(docBefore, new_content)

C4_Witness ==
    /\ Len(results) = 1 /\ results[1]
    /\ Cardinality(Spans(docBefore)) = 2
    /\ Count(doc, "<div class=publications-list>") = 2

\* C10: whenever update_html_file returns True, the document written back
\* contains new_content.
C10_SuccessImpliesReplaced ==
    (Len(results) >= 1 /\ LastResult) => Occurs(new_content, doc)

----------------------------------------------------------------------------
(* SpecFetch: fetch_publications on one answer of the bibliographic source *)

Y2019 == <<"2", "0", "1", "9">>
Y2023 == <<"2", "0", "2", "3">>
ABSENT == <<"(no pub_year)">>

PlainYears == {Y2019, Y2023}
OddYears == {ABSENT, NO_DATE, <<>>, <<"a">>, <<"a", "2", "0", "2", "1", "a">>,
             <<"1", "2", "0", "2", "3", "9">>, <<"9", "9", "9">>, Y2019}

\* the source's k-th record; its title tells the records apart
RawPub(k, year) ==
    IF year = ABSENT THEN [title |-> <<ToString(k)>>]
    ELSE [title |-> <<ToString(k)>>, pub_year |-> year]

FetchSources ==
    {[k \in 1..Len(years) |-> RawPub(k, years[k])] :
        years \in SeqsUpTo(PlainYears, MaxPubs) \cup SeqsUpTo(OddYears, MaxOddPubs)}

FetchInit ==
    /\ script \in Scripts
    /\ scholar_id = "kWYDz2UAAAAJ"
    /\ pc = "fetch"
    /\ raw \in FetchSources
    /\ fetchOK \in BOOLEAN
    /\ publications = <<>> /\ html = <<>> /\ new_content = <<>>
    /\ fileExists = FALSE /\ doc = <<>> /\ docBefore = <<>>
    /\ reads = 0 /\ writes = 0 /\ results = <<>>
    /\ gitLog = <<>> /\ pushed = "none" /\ exitCode = -1

FetchCall ==
    /\ pc = "fetch"
    /\ publications' = fetch_publications(script, raw, fetchOK)
    /\ pc' = "fetched"
    /\ UNCHANGED <<script, raw, fetchOK, html, new_content, fileExists, doc,
                   docBefore, reads, writes, results, gitLog, pushed, scholar_id,
                   exitCode>>

FetchNext == FetchCall

SpecFetch == FetchInit /\ [][FetchNext]_vars

(* Properties of fetch_publications *)

Years == [k \in 1..Len(raw) |-> Normalize(raw[k]).year]

\* C5: the sort key of no year raises; it is 0 for the sentinel, the empty
\* year and text with neither a 19xx/20xx substring nor a number, and the
\* 19xx/20xx substring where there is one; so a source that answered with
\* records never yields the empty list.
C5_TolerantYear ==
    (pc = "fetched" /\ fetchOK)
        => /\ \A k \in 1..Len(raw) :
                /\ ~KeyRaises(script, Years[k])
                /\ (Years[k] \in {NO_DATE, <<>>}
                        \/ (YearMatch(Years[k]) = 0 /\ ~IntParses(Years[k])))
                      => get_sort_year(script, Years[k]) = 0
                /\ YearMatch(Years[k]) # 0
                      => get_sort_year(script, Years[k])
                           = Decimal(SubSeq(Years[k], YearMatch(Years[k]),
                                            YearMatch(Years[k]) + 3))
           /\ Len(raw) > 0 => publications # <<>>

Min(a, b) == IF a < b THEN a ELSE b

\* C6: when no key raises, the result holds min(n, 10) of the n records, in
\* descending key order with equal keys in source order, and every record
\* left out ranks after every record kept (a smaller key, or an equal key
\* and a later place in the source).
C6_SortedTopTen ==
    (pc = "fetched" /\ fetchOK /\ \A k \in 1..Len(raw) : ~KeyRaises(script, Years[k]))
        => LET pubs == [k \in 1..Len(raw) |-> Normalize(raw[k])]
               key(p) == get_sort_year(script, p.year)
               out == publications
               kept == {k \in 1..Len(pubs) : \E i \in 1..Len(out) : out[i] = pubs[k]}
               place(i) == CHOOSE k \in 1..Len(pubs) : pubs[k] = out[i]
               before(a, b) == \/ key(pubs[a]) > key(pubs[b])
                               \/ key(pubs[a]) = key(pubs[b]) /\ a < b
           IN  /\ Len(out) = Min(Len(pubs), 10)
               /\ \A i \in 1..Len(out) : \E k \in 1..Len(pubs) : pubs[k] = out[i]
               /\ \A i, j \in 1..Len(out) : i < j => before(place(i), place(j))
               /\ \A k \in (1..Len(pubs)) \ kept : \A m \in kept : before(m, k)

C6_Witness ==
    /\ pc = "fetched" /\ fetchOK
    /\ Len(raw) = 11 /\ Len(publications) = 10
    /\ \A k \in 1..10 : Years[k] = Y2019
    /\ Years[11] = Y2023
    /\ publications[1] = Normalize(raw[11])
    /\ publications[2] = Normalize(raw[1])

----------------------------------------------------------------------------
(* SpecRender: format_publication_html on one normalized record *)

Venues == SeqsUpTo({" ", "V", "Unpublished"}, MaxVenueLen)

\* a dictionary that has key with one of the values, or lacks it
Optional(key, values) == {<<>>} \cup {key :> v : v \in values}

\* the source's records: with or without a venue, a journal, a year and a URL
RenderSources ==
    {v @@ j @@ y @@ u :
        v \in Optional("venue", Venues), j \in Optional("journal", {<<"J">>}),
        y \in Optional("pub_year", {Y2023}), u \in Optional("pub_url", {<<"u">>})}

RenderInit ==
    /\ script \in Scripts
    /\ scholar_id = "kWYDz2UAAAAJ"
    /\ pc = "render"
    /\ raw \in {<<r>> : r \in RenderSources}
    /\ fetchOK = TRUE
    /\ \E cites \in {0, 5}, asList \in BOOLEAN :
          publications =
            <<[Normalize(raw[1]) EXCEPT
                 !.citations = cites,
                 !.authors = IF asList
                             THEN [list |-> TRUE, val |-> <<<<"A">>, <<"B">>>>]
                             ELSE [list |-> FALSE, val |-> <<"A">>]]>>
    /\ html = <<>> /\ new_content = <<>>
    /\ fileExists = FALSE /\ doc = <<>> /\ docBefore = <<>>
    /\ reads = 0 /\ writes = 0 /\ results = <<>>
    /\ gitLog = <<>> /\ pushed = "none" /\ exitCode = -1

RenderCall ==
    /\ pc = "render"
    /\ html' = format_publication_html(script, publications[1])
    /\ pc' = "rendered"
    /\ UNCHANGED <<script, raw, fetchOK, publications, new_content, fileExists,
                   doc, docBefore, reads, writes, results, gitLog, pushed,
                   scholar_id, exitCode>>

RenderNext == RenderCall

SpecRender == RenderInit /\ [][RenderNext]_vars

(* Properties of format_publication_html *)

\* the text of the venue-info paragraph
VenueLine(text) ==
    LET from == FirstIndex(text, "<p class=venue-info>", 1)
        to == FirstIndex(text, "</p>", from)
    IN  SubSeq(text, from + 1, to - 1)

StartsWith(text, prefix) ==
    Len(text) >= Len(prefix) /\ SubSeq(text, 1, Len(prefix)) = prefix

\* C9: in both scripts the venue-info line starts with the venue and ", "
\* exactly when the venue is non-empty, not blank and not "Unpublished", and
\* starts with the year otherwise.
C9_VenueSuppressed ==
    pc = "rendered"
        => LET pub == publications[1]
               shown == pub.venue # <<>> /\ NotBlank(pub.venue)
                           /\ pub.venue # UNPUBLISHED
           IN  IF shown
               THEN StartsWith(VenueLine(html), pub.venue \o <<", ">> \o pub.year)
               ELSE StartsWith(VenueLine(html), pub.year)

----------------------------------------------------------------------------
(* Spec: one run of main, in either script *)

\* os.environ.get('SCHOLAR_ID', GOOGLE_SCHOLAR_ID); the local script reads
\* no environment
get_scholar_id_from_env(s, env) ==
    IF s = "update_publications" /\ env # "" THEN env ELSE GOOGLE_SCHOLAR_ID(s)

MainRecords ==
    {<<>>,
     [title |-> <<"x">>, author |-> [list |-> TRUE, val |-> <<<<"A">>, <<"B">>>>],
      pub_year |-> Y2023, venue |-> <<"V">>, num_citations |-> 5,
      pub_url |-> <<"u">>],
     [title |-> <<BACKSLASH, "n">>, pub_year |-> <<"a">>]}

MainSources == SeqsUpTo(MainRecords, MaxMainPubs)
MainDocs == SeqsUpTo(DocAlphabet, MaxMainDocLen)
Clock == {"T0", "T1"}

\* where main goes once update_html_file has returned ret
MainAfterUpdate(s, ret) ==
    IF ~ret THEN "fail"
    ELSE IF s = "update_publications" THEN "success" ELSE "push"

\* where push_to_github goes once a git command has ended: the next command,
\* or its return value
GitStepAfter_keepGoing(cmd, ok) ==
    CASE cmd = "git diff" -> IF ok THEN "True" ELSE "git add"
      [] cmd = "git add" -> "git commit"
      [] cmd = "git commit" -> "git push"
      [] cmd = "git push" -> IF ok THEN "True" ELSE "False"

GitStepAfter(cmd, ok) ==
    CASE cmd = "git diff" -> IF ok THEN "True" ELSE "git add"
      [] cmd = "git add" -> IF ok THEN "git commit" ELSE "False"
      [] cmd = "git commit" -> IF ok THEN "git push" ELSE "False"
      [] cmd = "git push" -> IF ok THEN "True" ELSE "False"

MainReturn_alwaysZero(pushResult) == 0

\* main's return value after push_to_github
MainReturn(pushResult) == IF pushResult = "True" THEN 0 ELSE 1

Init ==
    /\ script \in Scripts
    /\ \E env \in {"", "kWYDz2UAAAAJ"} : scholar_id = get_scholar_id_from_env(script, env)
    /\ pc = "start"
    /\ raw \in MainSources
    /\ fetchOK \in BOOLEAN
    /\ publications = <<>> /\ html = <<>> /\ new_content = <<>>
    /\ fileExists \in BOOLEAN
    /\ doc \in (IF fileExists THEN MainDocs ELSE {<<>>})
    /\ docBefore = doc
    /\ reads = 0 /\ writes = 0 /\ results = <<>>
    /\ gitLog = <<>> /\ pushed = "none" /\ exitCode = -1

Start ==
    /\ pc = "start"
    /\ IF script = "update_publications" /\ scholar_id = "YOUR_SCHOLAR_ID"
       THEN pc' = "done" /\ exitCode' = 1
       ELSE pc' = "fetch" /\ UNCHANGED exitCode
    /\ UNCHANGED <<script, raw, fetchOK, publications, html, new_content,
                   fileExists, doc, docBefore, reads, writes, results, gitLog,
                   pushed, scholar_id>>

Fetch ==
    /\ pc = "fetch"
    /\ publications' = fetch_publications(script, raw, fetchOK)
    /\ IF publications' = <<>>
       THEN pc' = "done" /\ exitCode' = 1
       ELSE pc' = "generate" /\ UNCHANGED exitCode
    /\ UNCHANGED <<script, raw, fetchOK, html, new_content, fileExists, doc,
                   docBefore, reads, writes, results, gitLog, pushed, scholar_id>>

Generate ==
    /\ pc = "generate"
    /\ \E now \in Clock :
          new_content' = generate_publications_html(script, publications, now)
    /\ pc' = "update"
    /\ UNCHANGED <<script, raw, fetchOK, publications, html, fileExists, doc,
                   docBefore, reads, writes, results, gitLog, pushed, scholar_id,
                   exitCode>>

Update ==
    /\ pc = "update"
    /\ \E io \in IOOutcomes :
          /\ UpdateCall(io)
          /\ LET ret == update_html_file(fileExists, doc, new_content, io).ret
                 to == MainAfterUpdate(script, ret)
             IN  /\ pc' = IF to = "push" THEN "git diff" ELSE "done"
                 /\ exitCode' = CASE to = "success" -> 0
                                  [] to = "fail" -> 1
                                  [] OTHER -> exitCode
    /\ UNCHANGED <<script, raw, fetchOK, publications, html, new_content,
                   fileExists, gitLog, pushed, scholar_id>>

\* one git command of push_to_github; ok is its exit status being 0
GitCommand(cmd) ==
    /\ pc = cmd
    /\ \E ok \in BOOLEAN :
          /\ gitLog' = Append(gitLog, [cmd |-> cmd, ok |-> ok])
          /\ LET to == GitStepAfter(cmd, ok)
             IN  IF to \in {"True", "False"}
                 THEN pc' = "return" /\ pushed' = to
                 ELSE pc' = to /\ UNCHANGED pushed
    /\ UNCHANGED <<script, raw, fetchOK, publications, html, new_content,
                   fileExists, doc, docBefore, reads, writes, results, scholar_id,
                   exitCode>>

GitDiff == GitCommand("git diff")
GitAdd == GitCommand("git add")
GitCommit == GitCommand("git commit")
GitPush == GitCommand("git push")

Return ==
    /\ pc = "return"
    /\ exitCode' = MainReturn(pushed)
    /\ pc' = "done"
    /\ UNCHANGED <<script, raw, fetchOK, publications, html, new_content,
                   fileExists, doc, docBefore, reads, writes, results, gitLog,
                   pushed, scholar_id>>

Next ==
    \/ Start
    \/ Fetch
    \/ Generate
    \/ Update
    \/ GitDiff
    \/ GitAdd
    \/ GitCommit
    \/ GitPush
    \/ Return

Spec == Init /\ [][Next]_vars

(* Properties of main *)

\* C7: main returns 1 when the fetch failed or gave no publication (and then
\* academia.html was neither read nor opened for writing), when the file is
\* missing, when a marker is missing and when update_html_file failed for any
\* other reason; it returns 0 only after update_html_file returned True and,
\* in the local script, push_to_github returned True.
C7_ExitContract ==
    pc = "done"
        => /\ exitCode \in {0, 1}
           /\ (~fetchOK \/ raw = <<>> \/ publications = <<>>)
                 => exitCode = 1 /\ results = <<>> /\ reads = 0 /\ writes = 0
           /\ (publications # <<>> /\ (~fileExists \/ LacksMarker(docBefore)))
                 => exitCode = 1
           /\ results = <<FALSE>> => exitCode = 1
           /\ exitCode = 0
                 => /\ results = <<TRUE>>
                    /\ script = "update_publications_local" => pushed = "True"

C7_Witness ==
    /\ pc = "done" /\ exitCode = 1
    /\ fileExists /\ ~LacksMarker(docBefore)
    /\ results = <<FALSE>> /\ writes = 1 /\ doc = <<>>

Issued(cmd) == \E k \in 1..Len(gitLog) : gitLog[k].cmd = cmd
Succeeded(cmd) == \E k \in 1..Len(gitLog) : gitLog[k] = [cmd |-> cmd, ok |-> TRUE]

\* C8: a git command is issued only by the local script and only after
\* update_html_file returned True; commit only after a successful stage and
\* push only after a successful commit; from the first git command on the
\* document is what the splice wrote, and main returns 1 when push_to_github
\* failed.
C8_PublishOrder ==
    /\ gitLog # <<>>
          => /\ script = "update_publications_local"
             /\ results = <<TRUE>>
             /\ doc = Respliced(docBefore, new_content)
    /\ \A k \in 1..Len(gitLog) :
          /\ gitLog[k].cmd = "git commit"
                => k > 1 /\ gitLog[k - 1] = [cmd |-> "git add", ok |-> TRUE]
          /\ gitLog[k].cmd = "git push"
                => k > 1 /\ gitLog[k - 1] = [cmd |-> "git commit", ok |-> TRUE]
    /\ (pc = "done" /\ pushed = "False") => exitCode = 1

C8_Witness ==
    /\ pc = "done" /\ exitCode = 1 /\ pushed = "False"
    /\ Succeeded("git add") /\ Succeeded("git commit")
    /\ Issued("git push") /\ ~Succeeded("git push")
    /\ doc # docBefore

====
